---- MODULE Spec2Model ----
(***************************************************************************)
(* A model of src/lua/lf/websocket_bridge.py: the LSPBridge that relays    *)
(* Content-Length framed JSON between one child process (stdio) and a set  *)
(* of WebSocket clients.                                                   *)
(*                                                                         *)
(* Bytes are one-character strings and byte strings are sequences of them. *)
(* The tasks of the asyncio event loop are interleaved at their awaits:    *)
(* one action is the code a task runs between two suspension points.       *)
(*                                                                         *)
(* The JSON fragment of the model is the non-negative integers and the     *)
(* arrays of them: enough for json.loads to fail, to succeed on a prefix   *)
(* of a document, and for json.dumps to write other bytes than it read.    *)
(***************************************************************************)
EXTENDS Integers, Sequences, FiniteSets, TLC

\* ------------------------------------------------------------------ bounds
\* The number of WebSocket connections that are ever opened.
NumClients == 2
\* The number of write calls the child makes on its stdout.
MaxWrites == 2
\* The number of text frames the clients send, all clients together.
MaxSends == 3

ClientIds == 1..NumClients

\* ------------------------------------------------------------------- bytes
CR == "\r"
LF == "\n"
CRLF == <<CR, LF>>
\* str.strip() and the JSON scanner skip these.
Whitespace == {" ", "\t", CR, LF}
DigitChars == <<"0", "1", "2", "3", "4", "5", "6", "7", "8", "9">>
IsDigit(ch) == \E i \in 1..10 : DigitChars[i] = ch
DigitVal(ch) == (CHOOSE i \in 1..10 : DigitChars[i] = ch) - 1
\* The literal 'Content-Length:'.
ContentLengthPrefix ==
    <<"C", "o", "n", "t", "e", "n", "t", "-", "L", "e", "n", "g", "t", "h", ":">>

Min(a, b) == IF a < b THEN a ELSE b

RECURSIVE LStrip(_)
LStrip(s) == IF s # <<>> /\ Head(s) \in Whitespace THEN LStrip(Tail(s)) ELSE s

RECURSIVE RStrip(_)
RStrip(s) ==
    IF s # <<>> /\ s[Len(s)] \in Whitespace
    THEN RStrip(SubSeq(s, 1, Len(s) - 1))
    ELSE s

\* str.strip()
Strip(s) == RStrip(LStrip(s))

\* str.startswith(p)
StartsWith(s, p) == Len(s) >= Len(p) /\ SubSeq(s, 1, Len(p)) = p

\* The index of the first ch in s at or after position from; Len(s) + 1 if none.
RECURSIVE Find(_, _, _)
Find(s, ch, from) ==
    IF from > Len(s) THEN Len(s) + 1
    ELSE IF s[from] = ch THEN from
    ELSE Find(s, ch, from + 1)

\* header.split(':')[1], for a header that holds a colon: the text between the
\* first colon and the second (or the end).
SplitColonField1(s) ==
    LET a == Find(s, ":", 1)
        b == Find(s, ":", a + 1)
    IN  SubSeq(s, a + 1, b - 1)

RECURSIVE DigitsValue(_, _)
DigitsValue(s, acc) ==
    IF s = <<>> THEN acc ELSE DigitsValue(Tail(s), 10 * acc + DigitVal(Head(s)))

AllDigits(s) == s # <<>> /\ \A i \in 1..Len(s) : IsDigit(s[i])

\* int(text): surrounding whitespace, an optional sign, decimal digits.
\* [ok |-> FALSE] stands for ValueError.
ParseInt(text) ==
    LET t == Strip(text)
        signed == t # <<>> /\ Head(t) \in {"-", "+"}
        digits == IF signed THEN Tail(t) ELSE t
    IN  IF ~AllDigits(digits) THEN [ok |-> FALSE, val |-> 0]
        ELSE [ok |-> TRUE,
              val |-> IF signed /\ Head(t) = "-"
                      THEN 0 - DigitsValue(digits, 0)
                      ELSE DigitsValue(digits, 0)]

\* str(n) for n >= 0, as the f-string of the header formats the length.
RECURSIVE IntToStr(_)
IntToStr(n) ==
    IF n < 10 THEN <<DigitChars[n + 1]>>
    ELSE IntToStr(n \div 10) \o <<DigitChars[(n % 10) + 1]>>

\* -------------------------------------------------------------------- JSON
\* A JSON value of the fragment: an array of naturals (arr) or one natural.
NumberValue(n) == [arr |-> FALSE, items |-> <<n>>]
ArrayValue(ns) == [arr |-> TRUE, items |-> ns]
NoValue == [arr |-> FALSE, items |-> <<>>]

\* A JSON number of the fragment: digits with no leading zero.
IsJsonNat(s) == AllDigits(s) /\ (Len(s) = 1 \/ Head(s) # "0")

\* ', '.join(parts)
RECURSIVE JoinCommaSpace(_)
JoinCommaSpace(parts) ==
    IF parts = <<>> THEN <<>>
    ELSE IF Len(parts) = 1 THEN Head(parts)
    ELSE Head(parts) \o <<",", " ">> \o JoinCommaSpace(Tail(parts))

\* json.dumps(value): the default separators, ', ' between the items.
Dumps(v) ==
    IF v.arr
    THEN <<"[">> \o JoinCommaSpace([i \in 1..Len(v.items) |-> IntToStr(v.items[i])])
         \o <<"]">>
    ELSE IntToStr(v.items[1])

\* The items of the inside of an array, each stripped; <<-1>> marks an inside
\* that is no comma-separated list of numbers.
RECURSIVE ParseItems(_)
ParseItems(s) ==
    LET c == Find(s, ",", 1)
        item == Strip(SubSeq(s, 1, c - 1))
        rest == IF c > Len(s) THEN <<>> ELSE ParseItems(SubSeq(s, c + 1, Len(s)))
    IN  IF ~IsJsonNat(item) THEN <<-1>>
        ELSE IF c > Len(s) THEN <<DigitsValue(item, 0)>>
        ELSE IF SubSeq(s, c + 1, Len(s)) = <<>> \/ rest = <<-1>> THEN <<-1>>
        ELSE <<DigitsValue(item, 0)>> \o rest

\* json.loads(text): [ok |-> FALSE] stands for json.JSONDecodeError.
Loads(text) ==
    LET t == Strip(text)
        inner == SubSeq(t, 2, Len(t) - 1)
        items == ParseItems(inner)
    IN  IF IsJsonNat(t) THEN [ok |-> TRUE, val |-> NumberValue(DigitsValue(t, 0))]
        ELSE IF Len(t) >= 2 /\ Head(t) = "[" /\ t[Len(t)] = "]"
        THEN IF Strip(inner) = <<>> THEN [ok |-> TRUE, val |-> ArrayValue(<<>>)]
             ELSE IF items = <<-1>> THEN [ok |-> FALSE, val |-> NoValue]
             ELSE [ok |-> TRUE, val |-> ArrayValue(items)]
        ELSE [ok |-> FALSE, val |-> NoValue]

\* ------------------------------------------------------- asyncio.StreamReader
HasLine(buf) == Find(buf, LF, 1) <= Len(buf)

\* readline() returns once the buffer holds a newline or the stream has ended.
ReadlineReady(buf, eof) == HasLine(buf) \/ eof

\* The bytes readline() takes: through the first newline, or all that is left.
ReadlineLen(buf) == IF HasLine(buf) THEN Find(buf, LF, 1) ELSE Len(buf)

\* read(n) returns once a byte is buffered or the stream has ended; read(0)
\* returns at once; read(n) for n < 0 returns at the end of the stream only.
ReadReady(buf, eof, n) == IF n < 0 THEN eof ELSE n = 0 \/ buf # <<>> \/ eof

\* The bytes read(n) takes: at most n of those buffered; all of them for n < 0.
ReadLen(buf, n) == IF n < 0 THEN Len(buf) ELSE Min(n, Len(buf))

\* ------------------------------------------------------------ the child side
\* A frame as a language server writes it.
ChildFrame(body) ==
    ContentLengthPrefix \o <<" ">> \o IntToStr(Len(body)) \o CRLF \o CRLF \o body

\* What one write of the child on its stdout may be: a whole frame, a frame
\* short of its last body byte, that byte, a frame whose body is not JSON, a
\* frame with a negative length, and a blank line and a frame with a
\* non-numeric length.
ChildChunks ==
    { ChildFrame(<<"[", "1", ",", "2", "]">>),
      ContentLengthPrefix \o <<" ", "2">> \o CRLF \o CRLF \o <<"1">>,
      <<"2">>,
      ChildFrame(<<"[", "1">>),
      ContentLengthPrefix \o <<" ", "-", "1">> \o CRLF \o CRLF \o <<"[", "3", "]">>,
      CRLF \o ContentLengthPrefix \o <<" ", "x">> \o CRLF \o CRLF \o <<"[", "4", "]">> }

\* ----------------------------------------------------------- the client side
\* What one text frame of a client may be: two JSON documents and a broken one.
ClientTexts == { <<"[", "1", ",", "2", "]">>, <<"7">>, <<"[", "1">> }

\* ------------------------------------------------------------------- state
VARIABLES
    phase,          \* run(): "starting", "started" (start_lsp done), "serving",
                    \* "closing" (leaving the async with), "stopped"
    stdoutBuf,      \* lsp_process.stdout: the bytes buffered, not yet read
    stdoutEof,      \* lsp_process.stdout: the child has closed its end
    nWrites,        \* the writes the child has made
    consumed,       \* the bytes read_lsp_output has taken from stdout
    pumpPc,         \* read_lsp_output: "header", "sep", "body", "gather", "done"
    pumpExit,       \* why read_lsp_output left its loop: "none", "eof" or the error
    contentLength,  \* read_lsp_output: content_length
    frameOff,       \* the stream offset of the header line of the frame being read
    lastRead,       \* the last read(content_length): wanted, got, stream ended
    curMsg,         \* read_lsp_output: message_str, with the offset of its frame
    snap,           \* self.clients as it was when the last broadcast started
    pending,        \* the client.send() calls that have not returned
    failed,         \* the clients whose send raised in this broadcast
    clients,        \* self.clients
    conn,           \* per connection: "new", "open", "closed" (transport)
    hpc,            \* handle_client: "none", "recv", "write", "drain", "exited"
    contentBytes,   \* send_to_lsp: content_bytes, while the call is suspended
    inbox,          \* per connection: the text frames received, not yet iterated
    received,       \* per connection: what the client has been sent
    stdin,          \* the bytes written to lsp_process.stdin
    stdinLog,       \* which connection's message each frame of stdin was written for
    sent,           \* per connection: the text frames the client has sent
    sendFailed,     \* the clients a send to which has raised, in any broadcast
    joinedDraining, \* per connection: registered after read_lsp_output had stopped
    lspProcess,     \* self.lsp_process: "none", "running", "terminated"
    ready,          \* the readiness line has been printed on stdout
    hung,           \* the clients that have stopped reading from their transport
    echoed,         \* the bytes of stdin an echoing child has written back
    keyError        \* a self.clients.remove has raised KeyError

vars == <<phase, stdoutBuf, stdoutEof, nWrites, consumed, pumpPc, pumpExit,
          contentLength, frameOff, lastRead, curMsg, snap, pending, failed,
          clients, conn, hpc, contentBytes, inbox, received, stdin, stdinLog, sent,
          sendFailed, joinedDraining, lspProcess, ready, hung, echoed, keyError>>

childVars == <<stdoutBuf, stdoutEof, nWrites>>
pumpVars == <<consumed, pumpPc, pumpExit, contentLength, frameOff, lastRead,
              curMsg, snap>>
sendVars == <<pending, failed, received, sendFailed>>
handlerVars == <<hpc, contentBytes, inbox, stdin, stdinLog, sent>>
otherVars == <<lspProcess, ready, hung, echoed, keyError>>

NoMsg == [off |-> -1, text |-> <<>>]

\* LSPBridge.__init__, and nothing started.
Init ==
    /\ phase = "starting"
    /\ stdoutBuf = <<>>
    /\ stdoutEof = FALSE
    /\ nWrites = 0
    /\ consumed = 0
    /\ pumpPc = "header"
    /\ pumpExit = "none"
    /\ contentLength = 0
    /\ frameOff = 0
    /\ lastRead = [want |-> 0, got |-> 0, eof |-> FALSE]
    /\ curMsg = NoMsg
    /\ snap = {}
    /\ pending = {}
    /\ failed = {}
    /\ clients = {}
    /\ conn = [c \in ClientIds |-> "new"]
    /\ hpc = [c \in ClientIds |-> "none"]
    /\ contentBytes = [c \in ClientIds |-> <<>>]
    /\ inbox = [c \in ClientIds |-> <<>>]
    /\ received = [c \in ClientIds |-> <<>>]
    /\ stdin = <<>>
    /\ stdinLog = <<>>
    /\ sent = [c \in ClientIds |-> <<>>]
    /\ sendFailed = {}
    /\ joinedDraining = [c \in ClientIds |-> FALSE]
    /\ lspProcess = "none"
    /\ ready = FALSE
    /\ hung = {}
    /\ echoed = 0
    /\ keyError = FALSE

\* ---------------------------------------------------------------- run()
\* start_lsp: the child is spawned and the two reader tasks are created.
StartLsp ==
    /\ phase = "starting"
    /\ phase' = "started"
    /\ lspProcess' = "running"
    /\ UNCHANGED <<childVars, pumpVars, sendVars, handlerVars, clients, conn,
                   joinedDraining, ready, hung, echoed, keyError>>

\* websockets.serve is entered and the readiness line is printed.
Serve ==
    /\ phase = "started"
    /\ phase' = "serving"
    /\ ready' = TRUE
    /\ UNCHANGED <<childVars, pumpVars, sendVars, handlerVars, clients, conn,
                   joinedDraining, lspProcess, hung, echoed, keyError>>

\* ------------------------------------------------------------- the child
\* The child writes one chunk on its stdout.
ChildWrite(w) ==
    /\ lspProcess = "running"
    /\ ~stdoutEof
    /\ nWrites < MaxWrites
    /\ stdoutBuf' = stdoutBuf \o w
    /\ nWrites' = nWrites + 1
    /\ UNCHANGED <<otherVars, phase, stdoutEof, pumpVars, sendVars, handlerVars, clients,
                   conn, joinedDraining>>

\* The sizes of the next write of a child that echoes: all of the n bytes it
\* has not yet written back, or all but the last of them.
EchoSizes(n) == {n, n - 1} \ {0}

\* A child that echoes its stdin writes k more bytes of it on its stdout.
ChildEcho(k) ==
    /\ lspProcess = "running"
    /\ ~stdoutEof
    /\ k \in EchoSizes(Len(stdin) - echoed)
    /\ stdoutBuf' = stdoutBuf \o SubSeq(stdin, echoed + 1, echoed + k)
    /\ echoed' = echoed + k
    /\ UNCHANGED <<lspProcess, ready, hung, keyError, phase, stdoutEof, nWrites,
                   pumpVars, sendVars, handlerVars, clients, conn,
                   joinedDraining>>

\* The child closes its stdout (it exits).
ChildClose ==
    /\ lspProcess = "running"
    /\ ~stdoutEof
    /\ stdoutEof' = TRUE
    /\ UNCHANGED <<otherVars, phase, stdoutBuf, nWrites, pumpVars, sendVars, handlerVars,
                   clients, conn, joinedDraining>>

\* ------------------------------------------------------ read_lsp_output
\* The loop is left: by break at the end of the stream, or by the except arm.
PumpStop(why) ==
    /\ pumpPc' = "done"
    /\ pumpExit' = why

\* header = await stdout.readline(), and the code up to the next await: the
\* end of the stream, a blank line, a line that is no Content-Length header,
\* and int() of what follows the colon.
PumpReadHeader ==
    /\ lspProcess # "none"
    /\ pumpPc = "header"
    /\ ReadlineReady(stdoutBuf, stdoutEof)
    /\ LET k == ReadlineLen(stdoutBuf)
           line == SubSeq(stdoutBuf, 1, k)
           header == Strip(line)
           parsed == ParseInt(Strip(SplitColonField1(header)))
       IN  /\ stdoutBuf' = SubSeq(stdoutBuf, k + 1, Len(stdoutBuf))
           /\ consumed' = consumed + k
           /\ IF line = <<>>
              THEN PumpStop("eof") /\ UNCHANGED <<contentLength, frameOff>>
              ELSE IF header = <<>> \/ ~StartsWith(header, ContentLengthPrefix)
              THEN UNCHANGED <<pumpPc, pumpExit, contentLength, frameOff>>
              ELSE IF ~parsed.ok
              THEN PumpStop("ValueError") /\ UNCHANGED <<contentLength, frameOff>>
              ELSE /\ contentLength' = parsed.val
                   /\ frameOff' = consumed
                   /\ pumpPc' = "sep"
                   /\ UNCHANGED pumpExit
    /\ UNCHANGED <<otherVars, phase, stdoutEof, nWrites, lastRead, curMsg, snap, sendVars,
                   handlerVars, clients, conn, joinedDraining>>

\* await stdout.readline(): the line after the header, whatever it holds.
PumpReadSeparator ==
    /\ pumpPc = "sep"
    /\ ReadlineReady(stdoutBuf, stdoutEof)
    /\ LET k == ReadlineLen(stdoutBuf)
       IN  /\ stdoutBuf' = SubSeq(stdoutBuf, k + 1, Len(stdoutBuf))
           /\ consumed' = consumed + k
    /\ pumpPc' = "body"
    /\ UNCHANGED <<otherVars, phase, stdoutEof, nWrites, pumpExit, contentLength, frameOff,
                   lastRead, curMsg, snap, sendVars, handlerVars, clients, conn,
                   joinedDraining>>

\* A broadcast that leaves one registered client out.
RecipientsButOne(registry) ==
    IF registry = {} THEN {} ELSE registry \ {CHOOSE c \in registry : TRUE}

\* The clients one broadcast sends to: the iteration over self.clients.
Recipients(registry) == registry

\* A loop that awaits each send before it takes the next client of the set.
IterationSuspendsOnSend == TRUE

\* Whether read_lsp_output is suspended while it iterates over self.clients:
\* the comprehension calls client.send() for each client without awaiting,
\* and the coroutines made are awaited only afterwards, by gather.
IterationSuspends == FALSE

\* content = await stdout.read(content_length); json.loads; and, with clients
\* registered, json.dumps and one client.send() per client, handed to gather.
PumpReadBody ==
    /\ pumpPc = "body"
    /\ ReadReady(stdoutBuf, stdoutEof, contentLength)
    /\ LET k == ReadLen(stdoutBuf, contentLength)
           content == SubSeq(stdoutBuf, 1, k)
           message == Loads(content)
           msg == [off |-> frameOff, text |-> Dumps(message.val)]
       IN  /\ stdoutBuf' = SubSeq(stdoutBuf, k + 1, Len(stdoutBuf))
           /\ consumed' = consumed + k
           /\ lastRead' = [want |-> contentLength, got |-> k, eof |-> stdoutEof]
           /\ IF ~message.ok
              THEN /\ PumpStop("JSONDecodeError")
                   /\ UNCHANGED <<curMsg, snap, pending, failed>>
              ELSE IF clients = {}
              THEN /\ pumpPc' = "header"
                   /\ UNCHANGED <<pumpExit, curMsg, snap, pending, failed>>
              ELSE /\ pumpPc' = IF IterationSuspends THEN "iter" ELSE "gather"
                   /\ curMsg' = msg
                   /\ snap' = clients
                   /\ pending' = pending \cup
                                 {[c |-> c, m |-> msg] : c \in Recipients(clients)}
                   /\ failed' = {}
                   /\ UNCHANGED pumpExit
    /\ UNCHANGED <<otherVars, phase, stdoutEof, nWrites, contentLength, frameOff, received,
                   sendFailed, handlerVars, clients, conn, joinedDraining>>

\* client.send(message_str) returns: the client has the message.
SendOk(p) ==
    /\ p \in pending
    /\ conn[p.c] = "open"
    /\ p.c \notin hung
    /\ pending' = pending \ {p}
    /\ received' = [received EXCEPT ![p.c] = Append(@, p.m)]
    /\ UNCHANGED <<otherVars, phase, childVars, pumpVars, failed, sendFailed, handlerVars,
                   clients, conn, joinedDraining>>

\* client.send(message_str) raises: the connection is closed.
SendFail(p) ==
    /\ p \in pending
    /\ conn[p.c] # "open"
    /\ pending' = pending \ {p}
    /\ failed' = failed \cup {p.c}
    /\ sendFailed' = sendFailed \cup {p.c}
    /\ UNCHANGED <<otherVars, phase, childVars, pumpVars, received, handlerVars, clients,
                   conn, joinedDraining>>

\* The sends started and not awaited.
GatherNotAwaited(sends) == TRUE

\* await asyncio.gather(...) returns when every send has returned or raised.
GatherDone(sends) == sends = {}

\* gather without return_exceptions: the first send that raises is raised.
GatherRaisesFirst(raised) == raised # {}

\* return_exceptions=True: a send that raised is a result, gather raises nothing.
GatherRaises(raised) == FALSE

\* The await of gather ends, and the loop goes round (or leaves by except).
PumpGatherDone ==
    /\ pumpPc \in {"gather", "iter"}
    /\ GatherDone(pending)
    /\ IF GatherRaises(failed)
       THEN PumpStop("send")
       ELSE pumpPc' = "header" /\ UNCHANGED pumpExit
    /\ UNCHANGED <<otherVars, phase, childVars, consumed, contentLength, frameOff, lastRead,
                   curMsg, snap, sendVars, handlerVars, clients, conn,
                   joinedDraining>>

\* -------------------------------------------------------- send_to_lsp
\* header = f"Content-Length: {len(content_bytes)}\r\n\r\n"
FrameHeader(n) ==
    ContentLengthPrefix \o <<" ">> \o IntToStr(n) \o CRLF \o CRLF

\* An await between the two writes.
WriteSuspendsOnHeader == TRUE

\* Whether send_to_lsp is suspended between stdin.write(header) and
\* stdin.write(content_bytes): write is no coroutine, and nothing is awaited.
WriteSuspends == FALSE

\* ------------------------------------------------------ handle_client
\* A server that stops accepting once read_lsp_output has stopped.
AcceptsWhileRunning == phase = "serving" /\ pumpPc # "done"

\* websockets.serve accepts connections while run() is inside its async with.
AcceptsClients == phase = "serving"

\* A bridge that keeps the last message for the connections to come.
BacklogLast(last) == IF last = NoMsg THEN <<>> ELSE <<last>>

\* What a connection is sent on registering, of the messages broadcast
\* before: handle_client adds it to the set and sends it nothing.
Backlog(last) == <<>>

\* A client connects: handle_client is entered and registers the connection.
Connect(c) ==
    /\ AcceptsClients
    /\ conn[c] = "new"
    /\ \A d \in ClientIds : d < c => conn[d] # "new"
    /\ conn' = [conn EXCEPT ![c] = "open"]
    /\ hpc' = [hpc EXCEPT ![c] = "recv"]
    /\ clients' = clients \cup {c}
    /\ joinedDraining' = [joinedDraining EXCEPT ![c] = (pumpPc = "done")]
    /\ received' = [received EXCEPT ![c] = @ \o Backlog(curMsg)]
    /\ UNCHANGED <<otherVars, phase, childVars, pumpVars, pending, failed,
                   sendFailed, contentBytes, inbox, stdin, stdinLog, sent>>

\* The number of text frames the clients have sent.
RECURSIVE TotalSent(_)
TotalSent(S) ==
    IF S = {} THEN 0
    ELSE LET c == CHOOSE x \in S : TRUE IN Len(sent[c]) + TotalSent(S \ {c})

\* A client sends one text frame.
ClientSendText(c, t) ==
    /\ conn[c] = "open"
    /\ TotalSent(ClientIds) < MaxSends
    /\ inbox' = [inbox EXCEPT ![c] = Append(@, t)]
    /\ sent' = [sent EXCEPT ![c] = Append(@, t)]
    /\ UNCHANGED <<otherVars, phase, childVars, pumpVars, sendVars, hpc, contentBytes, stdin,
                   stdinLog, clients, conn, joinedDraining>>

\* JSONDecodeError left uncaught: the handler ends, through its finally.
AfterInvalidJsonRaise == "exited"

\* Where handle_client goes on after json.loads raised JSONDecodeError: the
\* inner except logs it and the async for takes the next message.
AfterInvalidJson == "recv"

\* self.clients.remove(websocket): set.remove takes the element out, and
\* raises KeyError when the element is no member.
RegistryRemove(registry, c) ==
    [set |-> registry \ {c}, raised |-> c \notin registry]

\* A removal placed after the loop and in the except arm, not in a finally.
RemovedOnCloseOnly(how) == how = "exited"

\* Whether the removal runs when handle_client ends in the way given: it is
\* in the finally of the outer try, which runs however the try is left.
RemovedAtEnd(how) == TRUE

\* handle_client ends: how is "exited" when the async for ended or raised
\* ConnectionClosed, "raised" when another exception went through.
HandlerEnd(c, how) ==
    LET removal == RegistryRemove(clients, c)
    IN  /\ hpc' = [hpc EXCEPT ![c] = how]
        /\ IF RemovedAtEnd(how)
           THEN clients' = removal.set /\ keyError' = (keyError \/ removal.raised)
           ELSE UNCHANGED <<clients, keyError>>

\* The child has exited: its end of the stdin pipe is closed, as its stdout.
StdinBroken == stdoutEof

\* The exception of a failed write taken by no except arm.
AfterStdinErrorRaise == "raised"

\* Where handle_client goes on after a write to stdin or its drain raised:
\* the except of send_to_lsp logs it, send_to_lsp returns, and the async for
\* takes the next message.
AfterStdinError == "recv"

\* A handler that takes the text frame that arrived last.
NewestIndex(queue) == Len(queue)

\* The text frame the async for yields next, of those that have arrived and
\* are not yet taken: the one that arrived first.
NextIndex(queue) == 1

\* One round of the async for: json.loads(message_str), then send_to_lsp up
\* to its first suspension: json.dumps, stdin.write(header),
\* stdin.write(content_bytes), and the await of drain().
HandlerRecv(c) ==
    /\ hpc[c] = "recv"
    /\ inbox[c] # <<>>
    /\ LET i == NextIndex(inbox[c])
           message == Loads(inbox[c][i])
           bytes == Dumps(message.val)
           next == IF ~message.ok THEN AfterInvalidJson
                   ELSE IF WriteSuspends THEN "write" ELSE "drain"
       IN  /\ inbox' = [inbox EXCEPT ![c] = SubSeq(@, 1, i - 1)
                                             \o SubSeq(@, i + 1, Len(@))]
           /\ IF next = "exited"
              THEN HandlerEnd(c, "raised")
              ELSE hpc' = [hpc EXCEPT ![c] = next] /\ UNCHANGED <<clients, keyError>>
           /\ IF message.ok /\ ~StdinBroken
              THEN /\ stdin' = stdin \o FrameHeader(Len(bytes))
                                \o (IF WriteSuspends THEN <<>> ELSE bytes)
                   /\ contentBytes' = [contentBytes EXCEPT ![c] = bytes]
                   /\ stdinLog' = Append(stdinLog, [c |-> c, body |-> bytes])
              ELSE IF message.ok
              THEN /\ contentBytes' = [contentBytes EXCEPT ![c] = bytes]
                   /\ UNCHANGED <<stdin, stdinLog>>
              ELSE UNCHANGED <<stdin, contentBytes, stdinLog>>
    /\ UNCHANGED <<lspProcess, ready, hung, echoed, phase, childVars, pumpVars,
                   sendVars, sent, conn, joinedDraining>>

\* send_to_lsp is resumed: await stdin.drain() returns, or raises on a pipe
\* the child has closed, and the call ends (suspended before
\* stdin.write(content_bytes), it makes that write).
HandlerDrained(c) ==
    /\ hpc[c] \in {"write", "drain"}
    /\ IF hpc[c] = "write"
       THEN /\ stdin' = stdin \o contentBytes[c]
            /\ hpc' = [hpc EXCEPT ![c] = "drain"]
            /\ UNCHANGED <<contentBytes, clients, keyError>>
       ELSE /\ IF StdinBroken /\ AfterStdinError # "recv"
               THEN HandlerEnd(c, "raised")
               ELSE /\ hpc' = [hpc EXCEPT ![c] = "recv"]
                    /\ UNCHANGED <<clients, keyError>>
            /\ contentBytes' = [contentBytes EXCEPT ![c] = <<>>]
            /\ UNCHANGED stdin
    /\ UNCHANGED <<lspProcess, ready, hung, echoed, phase, childVars, pumpVars,
                   sendVars, inbox, stdinLog, sent, conn, joinedDraining>>

\* The client goes away: its transport is closed or broken.
ClientClose(c) ==
    /\ conn[c] = "open"
    /\ conn' = [conn EXCEPT ![c] = "closed"]
    /\ UNCHANGED <<otherVars, phase, childVars, pumpVars, sendVars, handlerVars, clients,
                   joinedDraining>>

\* The client stops reading: its transport takes no more, and a send to it
\* stays suspended for as long as the connection stays open.
ClientHang(c) ==
    /\ conn[c] = "open"
    /\ c \notin hung
    /\ hung' = hung \cup {c}
    /\ UNCHANGED <<lspProcess, ready, echoed, keyError, phase, childVars,
                   pumpVars, sendVars, handlerVars, clients, conn,
                   joinedDraining>>

\* The async for ends on the closed connection (or raises ConnectionClosed,
\* which the outer except takes), after the frames received before the
\* close; finally: self.clients.remove(websocket).
HandlerExit(c) ==
    /\ hpc[c] = "recv"
    /\ conn[c] = "closed"
    /\ inbox[c] = <<>>
    /\ HandlerEnd(c, "exited")
    /\ UNCHANGED <<lspProcess, ready, hung, echoed, phase, childVars, pumpVars,
                   sendVars, contentBytes, inbox, stdin, stdinLog, sent, conn,
                   joinedDraining>>

\* ------------------------------------------------------- main(): the end
\* The exception of a failed spawn caught, and run() going on.
AfterLaunchErrorServe == "started"

\* Where run() is after create_subprocess_exec raised: the exception leaves
\* start_lsp and run(), main's finally calls cleanup, and main ends.
AfterLaunchError == "stopped"

\* create_subprocess_exec raises: no process, and no reader task is created.
LaunchFail ==
    /\ phase = "starting"
    /\ phase' = AfterLaunchError
    /\ UNCHANGED <<otherVars, childVars, pumpVars, sendVars, handlerVars, clients,
                   conn, joinedDraining>>

\* The interrupt: run() is cancelled at its await of the Future, and the
\* async with of websockets.serve is left: the server accepts no more and
\* closes the connections it has.
ShutdownRequest ==
    /\ phase \in {"started", "serving"}
    /\ phase' = "closing"
    /\ conn' = [c \in ClientIds |-> IF conn[c] = "open" THEN "closed" ELSE conn[c]]
    /\ UNCHANGED <<otherVars, childVars, pumpVars, sendVars, handlerVars, clients,
                   joinedDraining>>

\* A handler is cancelled at its await (of the next frame, or of drain):
\* CancelledError is taken by no except arm, and goes through the finally.
HandlerCancel(c) ==
    /\ phase = "closing"
    /\ hpc[c] \in {"recv", "write", "drain"}
    /\ HandlerEnd(c, "raised")
    /\ contentBytes' = [contentBytes EXCEPT ![c] = <<>>]
    /\ UNCHANGED <<lspProcess, ready, hung, echoed, phase, childVars, pumpVars,
                   sendVars, inbox, stdin, stdinLog, sent, conn, joinedDraining>>

\* A cleanup that leaves the child alone.
NoTerminate(process) == process

\* cleanup(): if self.lsp_process: self.lsp_process.terminate()
Terminate(process) == IF process = "none" THEN "none" ELSE "terminated"

\* The async with is left when every handler has ended; main's finally calls
\* cleanup(), main ends, and asyncio.run cancels the tasks that remain.
Cleanup ==
    /\ phase = "closing"
    /\ \A c \in ClientIds : hpc[c] \in {"none", "exited", "raised"}
    /\ phase' = "stopped"
    /\ lspProcess' = Terminate(lspProcess)
    /\ pumpPc' = "done"
    /\ pumpExit' = IF pumpPc = "done" THEN pumpExit ELSE "cancelled"
    /\ pending' = {}
    /\ UNCHANGED <<ready, hung, echoed, keyError, childVars, consumed,
                   contentLength, frameOff, lastRead, curMsg, snap, failed,
                   received, sendFailed, handlerVars, clients, conn,
                   joinedDraining>>

\* ------------------------------------------------------------ the system
\* run() and the connections coming and going.
Lifecycle ==
    \/ StartLsp
    \/ Serve
    \/ \E c \in ClientIds : Connect(c)
    \/ \E c \in ClientIds : ClientClose(c)
    \/ \E c \in ClientIds : HandlerExit(c)

\* read_lsp_output and its sends.
Pump ==
    \/ PumpReadHeader
    \/ PumpReadSeparator
    \/ PumpReadBody
    \/ \E p \in pending : SendOk(p)
    \/ \E p \in pending : SendFail(p)
    \/ PumpGatherDone

\* The child's stdout, read_lsp_output and its sends.
Outbound ==
    \/ \E w \in ChildChunks : ChildWrite(w)
    \/ ChildClose
    \/ Pump

\* The clients' text frames, the async for of handle_client and send_to_lsp.
Inbound ==
    \/ \E c \in ClientIds, t \in ClientTexts : ClientSendText(c, t)
    \/ \E c \in ClientIds : HandlerRecv(c)
    \/ \E c \in ClientIds : HandlerDrained(c)

\* The client-to-process direction with clients that send one valid document.
InboundValid ==
    \/ \E c \in ClientIds : ClientSendText(c, <<"7">>)
    \/ \E c \in ClientIds : HandlerRecv(c)
    \/ \E c \in ClientIds : HandlerDrained(c)

\* The child exits, and read_lsp_output finds its stdout ended.
EndOfStream ==
    \/ ChildClose
    \/ PumpReadHeader

\* The ways run() and main() end.
Stopping ==
    \/ LaunchFail
    \/ ShutdownRequest
    \/ \E c \in ClientIds : HandlerCancel(c)
    \/ Cleanup

\* A call of self.clients.remove(c), for a member or not.
RemoveCall(c) ==
    /\ phase = "serving"
    /\ clients' = RegistryRemove(clients, c).set
    /\ keyError' = (keyError \/ RegistryRemove(clients, c).raised)
    /\ UNCHANGED <<lspProcess, ready, hung, echoed, phase, childVars, pumpVars,
                   sendVars, handlerVars, conn, joinedDraining>>

Next == Lifecycle \/ Outbound \/ Inbound \/ Stopping

\* The whole bridge.
Spec == Init /\ [][Next]_vars

\* The bridge with clients that send nothing: the process-to-client direction.
SpecOut == Init /\ [][Lifecycle \/ Outbound]_vars

\* The bridge with a child that writes nothing: the client-to-process direction.
SpecIn == Init /\ [][Lifecycle \/ Inbound]_vars

\* The client-to-process direction with a child that may exit, and the ways
\* the bridge ends.
SpecStop ==
    Init /\ [][Lifecycle \/ InboundValid \/ EndOfStream \/ Stopping]_vars

\* The process-to-client direction with clients that may stop reading.
SpecHung ==
    Init /\ [][Lifecycle \/ Outbound \/ \E c \in ClientIds : ClientHang(c)]_vars

\* The bridge with a child that writes back what it reads.
SpecEcho ==
    Init /\ [][\/ Lifecycle
               \/ Inbound
               \/ Pump
               \/ \E k \in 1..(Len(stdin) - echoed) : ChildEcho(k)]_vars

\* The registry under removals of members and of others.
SpecRegistry ==
    Init /\ [][Lifecycle \/ Inbound \/ \E c \in ClientIds : RemoveCall(c)]_vars

\* ================================================================ claims
\* The number of copies of the message of the frame at offset off that
\* client c has been sent.
Copies(c, off) ==
    Cardinality({i \in 1..Len(received[c]) : received[c][i].off = off})

\* The message of the second of two whole frames [1,2] on the child's stdout.
SecondOfTwoFrames ==
    LET body == <<"[", "1", ",", "2", "]">>
    IN  [off |-> Len(ChildFrame(body)), text |-> Dumps(Loads(body).val)]

\* C1 - Process-to-client ordering: what a client is sent comes in the order
\* of the frames on the child's stdout: the stream offsets of the frames of
\* the messages a client has received are strictly increasing.
C1_OrderPreserved ==
    \A c \in ClientIds :
        \A i, j \in 1..Len(received[c]) :
            i < j => received[c][i].off < received[c][j].off

\* Two clients have each received the messages of two whole frames.
C1_Witness ==
    \A c \in ClientIds : Len(received[c]) = 2 /\ received[c][2] = SecondOfTwoFrames

\* C2 - Broadcast fan-out: no client is ever sent two copies of a message,
\* and once the gather of a broadcast in which no send raised has returned,
\* every client that was registered when the message was decoded has been
\* sent exactly one copy of it.
C2_FanOut ==
    /\ \A c \in ClientIds : Copies(c, curMsg.off) <= 1
    /\ (pumpPc # "gather" /\ failed = {}) =>
           \A c \in snap : Copies(c, curMsg.off) = 1

\* A broadcast to two registered clients has returned, no send having raised.
C2_Witness ==
    /\ pumpPc = "header"
    /\ snap = ClientIds
    /\ failed = {}
    /\ \A c \in ClientIds : Copies(c, curMsg.off) = 1

\* C3 - Isolation under send failure: a send that raises never makes
\* read_lsp_output leave its loop, and once the gather has returned every
\* client of the broadcast whose send did not raise has the message.
C3_Isolation ==
    /\ pumpExit # "send"
    /\ pumpPc = "gather" \/ \A c \in snap \ failed : Copies(c, curMsg.off) = 1

\* After a broadcast in which the send to one client raised while another
\* client was sent the message, a later message has been decoded, broadcast
\* with no send raising, and that other client has it too.
C3_Witness ==
    /\ sendFailed # {}
    /\ failed = {}
    /\ pumpPc = "header"
    /\ curMsg = SecondOfTwoFrames
    /\ \E c \in snap : Copies(c, curMsg.off) = 1 /\ Len(received[c]) = 2

\* C4 - Removal on send failure (as claimed): a client a send to which has
\* raised in an earlier broadcast is not among the clients registered when
\* a later broadcast starts (stated for the second of two whole frames).
C4_RemovedOnSendFailure ==
    (pumpPc = "gather" /\ curMsg = SecondOfTwoFrames) =>
        snap \cap (sendFailed \ failed) = {}

\* What WholeFrames gives for a byte string that is no concatenation of frames.
NotFrames == <<<<"not frames">>>>

\* The frames of a byte string that is a concatenation of whole frames, as
\* the sequence of their bodies.
RECURSIVE WholeFrames(_)
WholeFrames(bytes) ==
    LET eol == Find(bytes, LF, 1)
        line == SubSeq(bytes, 1, eol)
        n == ParseInt(SubSeq(line, Len(ContentLengthPrefix) + 2, Len(line) - 2))
        bodyAt == eol + 3
        rest == WholeFrames(SubSeq(bytes, bodyAt + n.val, Len(bytes)))
    IN  IF bytes = <<>> THEN <<>>
        ELSE IF \/ eol > Len(bytes)
                \/ ~StartsWith(line, ContentLengthPrefix \o <<" ">>)
                \/ SubSeq(line, Len(line) - 1, Len(line)) # CRLF
                \/ ~n.ok
                \/ n.val < 0
                \/ SubSeq(bytes, eol + 1, eol + 2) # CRLF
                \/ Len(bytes) < bodyAt + n.val - 1
        THEN NotFrames
        ELSE IF rest = NotFrames THEN NotFrames
        ELSE <<SubSeq(bytes, bodyAt, bodyAt + n.val - 1)>> \o rest

\* C5 - Stdin frame atomicity: whenever no send_to_lsp is between its two
\* writes, the bytes written to the child's stdin are a concatenation of
\* whole frames, one per message written, in the order of the writes, each
\* declaring the length of its body.
C5_WholeFramesOnStdin ==
    (\A c \in ClientIds : hpc[c] # "write") =>
        WholeFrames(stdin) = [i \in 1..Len(stdinLog) |-> stdinLog[i].body]

\* Two clients have each had a message written to stdin, while the other's
\* send_to_lsp was suspended.
C5_Witness ==
    /\ Len(stdinLog) = 2
    /\ stdinLog[1].c # stdinLog[2].c
    /\ \A c \in ClientIds : hpc[c] = "drain"

\* C6 - DecodeError is non-fatal (as claimed): read_lsp_output does not
\* leave its loop because a body, read in full, is not valid JSON.
C6_DecodeErrorNonFatal ==
    ~(pumpExit = "JSONDecodeError" /\ lastRead.got = lastRead.want)

\* C7 - Exact body read (as claimed): read(content_length) returns the
\* content_length bytes of the body, and fewer only at the end of the
\* stream, where the loop is left and no message is made of them.
C7_ExactBodyRead ==
    (lastRead.want >= 0 /\ lastRead.got # lastRead.want) =>
        (lastRead.eof /\ pumpPc = "done")

\* C8 - Malformed length is a FramingError (as claimed): no message is
\* broadcast from a frame whose header declared a negative length.
C8_MalformedLengthStops ==
    ~(contentLength < 0 /\ pumpPc = "gather")

\* C9 - Draining: read_lsp_output leaves its loop when readline finds the
\* stream ended, and only then by "eof"; once it has left the loop it stays
\* out and no client is sent anything more; leaving the loop changes no
\* registration; a connection made afterwards is accepted and registered,
\* and is sent nothing.
C9_Draining ==
    /\ [][(/\ pumpPc = "header"
           /\ stdoutEof
           /\ stdoutBuf = <<>>
           /\ pumpVars' # pumpVars) => pumpExit' = "eof"]_vars
    /\ [](pumpExit = "eof" => (pumpPc = "done" /\ stdoutEof /\ stdoutBuf = <<>>))
    /\ [][pumpPc = "done" => (pumpPc' = "done" /\ received' = received)]_vars
    /\ [][(pumpPc # "done" /\ pumpPc' = "done") => clients' = clients]_vars
    /\ [](\A c \in ClientIds :
            /\ joinedDraining[c] => received[c] = <<>>
            /\ (/\ pumpPc = "done"
                /\ phase = "serving"
                /\ conn[c] = "new"
                /\ \A d \in ClientIds : d < c => conn[d] # "new")
               => ENABLED Connect(c))
    /\ [][\A c \in ClientIds :
            (pumpPc = "done" /\ conn[c] = "new" /\ conn'[c] = "open")
                => (c \in clients' /\ joinedDraining'[c])]_vars

\* The stream has ended; a client registered before is still registered and
\* has what it was sent; a client registered afterwards has been sent nothing.
C9_Witness ==
    /\ pumpExit = "eof"
    /\ \E c, d \in clients :
        /\ ~joinedDraining[c] /\ received[c] # <<>>
        /\ joinedDraining[d] /\ received[d] = <<>>

\* The text frames of client c that handle_client has taken.
Processed(c) == SubSeq(sent[c], 1, Len(sent[c]) - Len(inbox[c]))

\* What is written to stdin for a sequence of text frames: the re-encoded
\* body of each frame that is valid JSON.
RECURSIVE BodiesFor(_)
BodiesFor(texts) ==
    IF texts = <<>> THEN <<>>
    ELSE IF Loads(Head(texts)).ok
    THEN <<Dumps(Loads(Head(texts)).val)>> \o BodiesFor(Tail(texts))
    ELSE BodiesFor(Tail(texts))

\* The bodies written to stdin for client c.
RECURSIVE WrittenFor(_, _)
WrittenFor(log, c) ==
    IF log = <<>> THEN <<>>
    ELSE IF Head(log).c = c THEN <<Head(log).body>> \o WrittenFor(Tail(log), c)
    ELSE WrittenFor(Tail(log), c)

\* C10 - Malformed client input: what has been written to stdin for a client
\* is what its valid text frames encode to, nothing for the invalid ones;
\* and a connection whose transport is open stays registered, its handler
\* still running.
C10_MalformedInputDropped ==
    \A c \in ClientIds :
        /\ WrittenFor(stdinLog, c) = BodiesFor(Processed(c))
        /\ conn[c] = "open" => (c \in clients /\ hpc[c] # "exited")

\* A client sent an invalid text frame and then a valid one: one frame is
\* on stdin for it, and it is connected and registered.
C10_Witness ==
    \E c \in ClientIds :
        /\ Len(sent[c]) = 2
        /\ ~Loads(sent[c][1]).ok
        /\ Loads(sent[c][2]).ok
        /\ inbox[c] = <<>>
        /\ WholeFrames(stdin) = <<Dumps(Loads(sent[c][2]).val)>>
        /\ conn[c] = "open"
        /\ c \in clients

\* Whether sequence s is the beginning of sequence t.
IsPrefix(s, t) == Len(s) <= Len(t) /\ s = SubSeq(t, 1, Len(s))

\* The bodies of the frames on stdin that were written for client c, in the
\* order they lie on stdin.
RECURSIVE FramesOf(_, _, _)
FramesOf(frames, log, c) ==
    IF frames = <<>> \/ log = <<>> THEN <<>>
    ELSE IF Head(log).c = c
    THEN <<Head(frames)>> \o FramesOf(Tail(frames), Tail(log), c)
    ELSE FramesOf(Tail(frames), Tail(log), c)

\* C11 - Per-client inbound ordering: stdin holds whole frames, one for each
\* write made, and the frames written for one client lie on stdin in the
\* order in which the client sent the valid text frames they encode,
\* whatever the other clients' handlers have written in between.
C11_InboundOrder ==
    LET frames == WholeFrames(stdin)
    IN  /\ frames # NotFrames
        /\ Len(frames) = Len(stdinLog)
        /\ \A c \in ClientIds :
              IsPrefix(FramesOf(frames, stdinLog, c), BodiesFor(sent[c]))

\* A client has sent two different valid text frames, both are on stdin in
\* that order, and a frame of the other client lies on stdin as well.
C11_Witness ==
    \E c, d \in ClientIds :
        /\ c # d
        /\ Len(sent[c]) = 2
        /\ sent[c][1] # sent[c][2]
        /\ FramesOf(WholeFrames(stdin), stdinLog, c) = BodiesFor(sent[c])
        /\ Len(BodiesFor(sent[c])) = 2
        /\ FramesOf(WholeFrames(stdin), stdinLog, d) # <<>>

\* C12 - Stopped is terminal and clean: when main has ended after an
\* interrupt of the running bridge, terminate() has been called on the
\* child, no connection is open and the registry is empty; and no step is
\* taken from there.
C12_StoppedTerminalClean ==
    /\ []((phase = "stopped" /\ lspProcess # "none") =>
            /\ lspProcess = "terminated"
            /\ clients = {}
            /\ \A c \in ClientIds : conn[c] # "open")
    /\ [][phase # "stopped"]_vars

\* The bridge was interrupted when the child had exited, with one connection
\* closed before and one still open: both handlers have ended, the one that
\* was open with frames written to stdin.
C12_Witness ==
    /\ phase = "stopped"
    /\ lspProcess = "terminated"
    /\ pumpExit = "eof"
    /\ stdin # <<>>
    /\ \E c, d \in ClientIds : hpc[c] = "exited" /\ hpc[d] = "raised"

C14_LaunchFailure ==
    lspProcess = "none" =>
        /\ phase \in {"starting", "stopped"}
        /\ ~ready
        /\ pumpPc = "header" /\ consumed = 0
        /\ clients = {}
        /\ \A c \in ClientIds : conn[c] = "new" /\ hpc[c] = "none"

\* The spawn has failed and main has ended.
C14_Witness == phase = "stopped" /\ lspProcess = "none"

\* The offset on stdin of the frame of the j-th write logged.
RECURSIVE FrameStart(_, _)
FrameStart(log, j) ==
    IF j <= 1 THEN 0
    ELSE FrameStart(log, j - 1)
         + Len(FrameHeader(Len(log[j - 1].body))) + Len(log[j - 1].body)

\* C15 - Framing round-trip (as claimed): of the bytes send_to_lsp writes,
\* read back by read_lsp_output, each frame is decoded, to the message it
\* was written for, and from the offset where the frame begins: the loop is
\* not left on them, and a message decoded is the one written at its offset.
C15_FramingRoundTrip ==
    /\ pumpExit = "none"
    /\ curMsg # NoMsg =>
          \E j \in 1..Len(stdinLog) :
              /\ curMsg.off = FrameStart(stdinLog, j)
              /\ Loads(curMsg.text) = Loads(stdinLog[j].body)

\* C16 - A hung client blocks only its own pump (as claimed): when the
\* only sends of a broadcast still outstanding are to clients that have
\* stopped reading, read_lsp_output is not held up by them: it can go on to
\* the next frame.
C16_HungClientDoesNotBlock ==
    (/\ pumpPc = "gather"
     /\ pending # {}
     /\ \A p \in pending : p.c \in hung /\ conn[p.c] = "open")
        => ENABLED PumpGatherDone

\* The clients the broadcast under way has made a send for: those whose send
\* is outstanding, has raised, or has delivered the message.
SentTo ==
    {p.c : p \in pending} \cup failed
        \cup {c \in ClientIds : Copies(c, curMsg.off) > 0}

\* C17 - Registry access is race-free: no connection is added to or removed
\* from self.clients while a broadcast's iteration over it is open; the
\* sends of a broadcast are for the clients that were registered at the one
\* moment it iterated, whatever is added or removed while they are awaited.
C17_RaceFree ==
    /\ [][clients' # clients => pumpPc # "iter"]_vars
    /\ [](pumpPc = "gather" => SentTo = snap)

\* While the sends of a broadcast are awaited, a client it sends to has been
\* removed from the registry and another has been added.
C17_Witness ==
    /\ pumpPc = "gather"
    /\ pending # {}
    /\ snap \ clients # {}
    /\ clients \ snap # {}

\* C18 - Stdin write failure is local: the step by which a send_to_lsp whose
\* write failed ends (the bridge not being shut down) takes the handler back
\* to receiving, and changes nothing else: no registration, no connection,
\* no other handler, nothing of read_lsp_output; and a connection whose
\* transport is open is registered, its handler running.
C18_StdinFailureLocal ==
    /\ [][\A c \in ClientIds :
            (/\ StdinBroken
             /\ phase # "closing"
             /\ hpc[c] = "drain"
             /\ hpc'[c] # "drain")
                => /\ hpc'[c] = "recv"
                   /\ \A d \in ClientIds \ {c} : hpc'[d] = hpc[d]
                   /\ clients' = clients
                   /\ conn' = conn
                   /\ inbox' = inbox
                   /\ pumpVars' = pumpVars]_vars
    /\ [](\A c \in ClientIds :
            conn[c] = "open" =>
                (c \in clients /\ hpc[c] \in {"recv", "write", "drain"}))

\* After the child had exited a client sent two valid text frames: nothing
\* reached stdin, both have been handled, and the client is connected and
\* registered, its handler waiting for the next frame.
C18_Witness ==
    \E c \in ClientIds :
        /\ StdinBroken
        /\ stdin = <<>>
        /\ Len(BodiesFor(sent[c])) = 2
        /\ inbox[c] = <<>>
        /\ hpc[c] = "recv"
        /\ conn[c] = "open"
        /\ c \in clients

\* C19 - Registry membership invariant: self.clients holds the connections
\* whose handle_client has been entered and has not ended, and no other;
\* a handler that has ended, by the end of its loop or by an exception, has
\* ended for good, and its connection is not in the registry again.
C19_Membership ==
    /\ [](clients = {c \in ClientIds : hpc[c] \in {"recv", "write", "drain"}})
    /\ [][\A c \in ClientIds :
            hpc[c] \in {"exited", "raised"}
                => (hpc'[c] = hpc[c] /\ c \notin clients')]_vars

\* One handler has ended on its closed connection and one by an exception
\* raised while it was receiving, frames still unread: neither connection
\* is registered.
C19_Witness ==
    /\ phase = "closing"
    /\ \E c, d \in ClientIds :
        /\ hpc[c] = "exited" /\ sent[c] # <<>>
        /\ hpc[d] = "raised" /\ inbox[d] # <<>>
    /\ clients = {}

\* C20 - No buffering or replay: a client is sent a message only by the
\* broadcast of that message, under way, and only if it was registered when
\* that broadcast began; no send is kept for later; and read_lsp_output,
\* having read a body of valid JSON with nobody registered, sends nothing
\* and goes on to the next header.
C20_NoReplay ==
    /\ [][\A c \in ClientIds :
            received'[c] # received[c]
                => (/\ pumpPc = "gather"
                    /\ c \in snap
                    /\ received'[c] = Append(received[c], curMsg))]_vars
    /\ [](pumpPc # "gather" => pending = {})
    /\ [][(/\ pumpPc = "body"
           /\ pumpPc' # "body"
           /\ clients = {}
           /\ Loads(SubSeq(stdoutBuf, 1, ReadLen(stdoutBuf, contentLength))).ok)
              => (/\ pumpPc' = "header"
                  /\ pumpExit' = "none"
                  /\ pending' = {}
                  /\ received' = received)]_vars

\* The first of two frames was decoded with nobody registered; the first
\* client registered afterwards, and has been sent the second message only.
C20_Witness ==
    /\ received[1] = <<SecondOfTwoFrames>>
    /\ sendFailed = {}
    /\ pumpExit = "none"
    /\ pumpPc = "header"

====
